---- MODULE Spec2Model ----
(***************************************************************************)
(* Frame pipelines of the tracking-body notebooks.                         *)
(*                                                                         *)
(*   kind = "pose"        mediapipe-33points-osc.ipynb: capture, pose      *)
(*                        landmarks, flat keypoint list sent as one OSC    *)
(*                        message to "/pose".                              *)
(*   kind = "silhouette"  the Syphon notebook: capture, mirror, selfie     *)
(*                        segmentation, thresholded mask, white-on-black   *)
(*                        silhouette resized and sent to the Syphon server.*)
(*                                                                         *)
(* Spec: one behaviour is one run of a notebook, with the camera           *)
(* enumeration cell taken as passed: the set-up cell, then the             *)
(* capture-loop cell, statement by statement (pc).  Calls into OpenCV,     *)
(* MediaPipe, python-osc and Syphon are the environment: their results are *)
(* drawn from small sets.  Confidences are in tenths (6 stands for 0.6).   *)
(*                                                                         *)
(* SpecMask: the threshold statement for every threshold and confidence.   *)
(* SpecMatte (kind = "matte"): one frame through the body of the           *)
(* segmentation test loop: flip, threshold, Gaussian blur, bitwise_and.    *)
(* SpecEnum: list_camera_devices and the exit test that follows it.        *)
(* FairSpec: Spec with the two calls after the loop returning.             *)
(***************************************************************************)
EXTENDS Integers, Sequences, FiniteSets

VARIABLES
    kind,           \* which notebook runs
    pc,             \* statement about to execute
    cap,            \* cv2.VideoCapture object: "unset" | "opened" | "unopened" | "released"
    capSize,        \* native resolution of the capture device
    client,         \* SimpleUDPClient: "unset" | "open" | "closed"
    server,         \* Syphon.Server: "unset" | "open" | "closed"
    releases,       \* number of release/close calls made on each handle
    ret,            \* first value of the last cap.read()
    frame,          \* second value of the last cap.read(), as later reassigned
    results,        \* value of the last pose.process / selfie_segmentation.process
    keypoints,      \* python list built for the OSC message
    theta,          \* confidence threshold of the mask, in tenths
    body_mask,      \* thresholded mask
    silhouette_rgb, \* frame handed to the Syphon server
    osc,            \* OSC sink: socket writes, datagrams delivered, last datagram written
    syphon,         \* Syphon sink: publishes, current surface
    key,            \* last value of cv2.waitKey(1) & 0xFF
    reads,          \* cap.read() calls made
    infers,         \* process() calls made
    checks,         \* cv2.waitKey() calls made
    error,          \* exception that ended the cell, "none" when there is none
    captured,       \* the frame as cap.read() returned it, before any reassignment
    body_only,      \* output of the segmentation test loop
    index,          \* loop variable of list_camera_devices
    available_cameras, \* list built by list_camera_devices
    printed,        \* per-index lines printed by list_camera_devices
    left_open       \* indices whose probe capture is open

vars == <<kind, pc, cap, capSize, client, server, releases, ret, frame, results,
          keypoints, theta, body_mask, silhouette_rgb, osc, syphon, key, reads,
          infers, checks, error, captured, body_only, index, available_cameras,
          printed, left_open>>

----------------------------------------------------------------------------
(* Bounds of the model *)

\* frames the stream delivers before the device reports end of stream
MaxFrames == 2
\* landmarks in one landmark set (MediaPipe Pose gives 33)
MaxLandmarks == 2
\* samples kept of one raster
NumPixels == 2

(* Program constants *)

\* 0.6 in `segmentation_mask > 0.6`, in tenths
Threshold == 6
\* `* 255`
White == 255
\* size = (1280, 720)
SizeW == 1280
SizeH == 720
size == <<SizeW, SizeH>>
\* OSC_PORT = 12000
OSC_PORT == 12000
OSC_IP == "127.0.0.1"
PosePath == "/pose"

Kinds == {"pose", "silhouette"}
Coords == {0, 1}                       \* normalised landmark coordinates 0.0 and 1.0
ConfLevels == {0, 6, 7, 9, 10}         \* confidences fed to the running pipeline
AllConf == 0..10                       \* every confidence 0.0 .. 1.0
CaptureSizes == {<<640, 480>>, <<1280, 720>>}
Black3 == <<0, 0, 0>>
White3 == <<White, White, White>>
Colours == {Black3, <<10, 20, 30>>}    \* BGR triples of captured pixels
Pix == 1..NumPixels

NoFrame == [size |-> <<0, 0>>, layout |-> "none", px |-> <<>>]
NoMsg == [path |-> "", args |-> <<>>, frameNo |-> 0, ip |-> "", port |-> 0]
NoResults == [has |-> FALSE, landmark |-> <<>>, segmentation_mask |-> <<>>]

Landmarks == UNION {[1..n -> [x : Coords, y : Coords]] : n \in 1..MaxLandmarks}

\* frames cap.read() can deliver
Frames(k, sz) ==
    IF k = "pose"
    THEN {[size |-> sz, layout |-> "BGR", px |-> [i \in Pix |-> Black3]]}
    ELSE {[size |-> sz, layout |-> "BGR", px |-> p] : p \in [Pix -> Colours]}

\* values pose.process can return
PoseResults ==
    {NoResults} \cup
    {[has |-> TRUE, landmark |-> l, segmentation_mask |-> <<>>] : l \in Landmarks}

\* values selfie_segmentation.process can return
SegResults ==
    {[has |-> TRUE, landmark |-> <<>>, segmentation_mask |-> m] : m \in [Pix -> ConfLevels]}

----------------------------------------------------------------------------
(* Pure steps *)

\* cv2.flip(frame, 1)
Flip(f) == [f EXCEPT !.px = [i \in DOMAIN f.px |-> f.px[Len(f.px) + 1 - i]]]

\* cv2.cvtColor(img, cv2.COLOR_BGR2RGB)
CvtColorBGR2RGB(f) ==
    [f EXCEPT !.layout = "RGB",
              !.px = [i \in DOMAIN f.px |-> <<f.px[i][3], f.px[i][2], f.px[i][1]>>]]

ResizeNone(f, sz) == f

\* cv2.resize(img, size)
Resize(f, sz) == [f EXCEPT !.size = sz]

BodyMaskBelow(seg, t) == [i \in DOMAIN seg |-> IF seg[i] < t THEN White ELSE 0]

BodyMaskInclusive(seg, t) == [i \in DOMAIN seg |-> IF seg[i] >= t THEN White ELSE 0]

\* (results.segmentation_mask > t).astype(np.uint8) * 255
BodyMask(seg, t) == [i \in DOMAIN seg |-> IF seg[i] > t THEN White ELSE 0]

\* the white pixels of the silhouette sent before are kept
SilhouetteAccumulate(f, mask) ==
    [f EXCEPT !.px = [i \in DOMAIN f.px |->
        IF mask[i] = White \/ (i \in DOMAIN silhouette_rgb.px /\ silhouette_rgb.px[i] = White3)
        THEN White3 ELSE Black3]]

\* silhouette = np.zeros_like(frame); silhouette[body_mask == 255] = [255, 255, 255]
Silhouette(f, mask) ==
    [f EXCEPT !.px = [i \in DOMAIN f.px |-> IF mask[i] = White THEN White3 ELSE Black3]]

RECURSIVE Extend(_, _)
\* for landmark in ...: keypoints.extend([landmark.x, landmark.y])
Extend(kp, ls) ==
    IF ls = <<>> THEN kp
    ELSE Extend(kp \o <<ls[1].x, ls[1].y>>, Tail(ls))


KeypointsNoReset(old, ls) == Extend(old, ls)

\* keypoints = []; for landmark in results.pose_landmarks.landmark: keypoints.extend(...)
Keypoints(old, ls) == Extend(<<>>, ls)

----------------------------------------------------------------------------
(* Control flow of the capture-loop cell *)

LoopPcs == {"guard", "read", "infer", "build", "send", "show", "waitkey"}
BodyPcs == LoopPcs \ {"guard"}

AfterReadNoBreak(ok) == "infer"

AfterReadSkipRelease(ok) == IF ok THEN "infer" ELSE "done"

\* if not ret: break
AfterRead(ok) == IF ok THEN "infer" ELSE "release"

AfterBuildAlwaysSend(k, res) == "send"

\* if results.pose_landmarks: ... send_message; the silhouette loop always publishes
AfterBuild(k, res) == IF k = "pose" /\ ~res.has THEN "show" ELSE "send"

AfterShowNoCheck == "guard"

\* cv2.imshow(...) is followed by the cv2.waitKey(1) test
AfterShow == "waitkey"

AfterWaitKeyReprocess(k) == IF k = "q" THEN "release" ELSE "infer"

AfterWaitKeyIgnoreQuit(k) == "guard"

\* if cv2.waitKey(1) & 0xFF == ord('q'): break
AfterWaitKey(k) == IF k = "q" THEN "release" ELSE "guard"

----------------------------------------------------------------------------
Init ==
    /\ kind \in Kinds
    /\ pc = "setup"
    /\ cap = "unset"
    /\ capSize \in CaptureSizes
    /\ client = "unset"
    /\ server = "unset"
    /\ releases = [cap |-> 0, client |-> 0, server |-> 0]
    /\ ret = FALSE
    /\ frame = NoFrame
    /\ results = NoResults
    /\ keypoints = <<>>
    /\ theta = Threshold
    /\ body_mask = <<>>
    /\ silhouette_rgb = NoFrame
    /\ osc = [writes |-> 0, delivered |-> 0, last |-> NoMsg]
    /\ syphon = [publishes |-> 0, shown |-> 0, size |-> <<0, 0>>, surface |-> NoFrame]
    /\ key = "none"
    /\ reads = 0
    /\ infers = 0
    /\ checks = 0
    /\ error = "none"
    /\ captured = NoFrame
    /\ body_only = NoFrame
    /\ index = 0
    /\ available_cameras = <<>>
    /\ printed = <<>>
    /\ left_open = {}

\* the set-up cell: client = SimpleUDPClient(OSC_IP, OSC_PORT) / server = Syphon.Server(name, size)
Setup ==
    /\ pc = "setup"
    /\ \E ok \in BOOLEAN :
        IF ok
        THEN /\ pc' = "open"
             /\ client' = IF kind = "pose" THEN "open" ELSE client
             /\ server' = IF kind = "silhouette" THEN "open" ELSE server
             /\ syphon' = IF kind = "silhouette" THEN [syphon EXCEPT !.size = size] ELSE syphon
             /\ error' = error
        ELSE /\ pc' = "aborted"
             /\ error' = "SetupError"
             /\ UNCHANGED <<client, server, syphon>>
    /\ UNCHANGED <<kind, captured, body_only, index, available_cameras, printed, left_open,
                   cap, capSize, releases, ret, frame, results, keypoints, theta,
                   body_mask, silhouette_rgb, osc, key, reads, infers, checks>>

\* cap = cv2.VideoCapture(0)
OpenCapture ==
    /\ pc = "open"
    /\ \E ok \in BOOLEAN : cap' = IF ok THEN "opened" ELSE "unopened"
    /\ pc' = "guard"
    /\ UNCHANGED <<kind, captured, body_only, index, available_cameras, printed, left_open,
                   capSize, client, server, releases, ret, frame, results, keypoints,
                   theta, body_mask, silhouette_rgb, osc, syphon, key, reads, infers,
                   checks, error>>

LoopGuardNoTest ==
    /\ pc = "guard"
    /\ pc' = "read"
    /\ UNCHANGED <<kind, captured, body_only, index, available_cameras, printed, left_open,
                   cap, capSize, client, server, releases, ret, frame, results,
                   keypoints, theta, body_mask, silhouette_rgb, osc, syphon, key, reads,
                   infers, checks, error>>

\* while cap.isOpened():
LoopGuard ==
    /\ pc = "guard"
    /\ pc' = IF cap = "opened" THEN "read" ELSE "release"
    /\ UNCHANGED <<kind, captured, body_only, index, available_cameras, printed, left_open,
                   cap, capSize, client, server, releases, ret, frame, results,
                   keypoints, theta, body_mask, silhouette_rgb, osc, syphon, key, reads,
                   infers, checks, error>>

\* ret, frame = cap.read(); if not ret: break
ReadFrame ==
    /\ pc = "read"
    /\ \E ok \in BOOLEAN :
        /\ ok => reads < MaxFrames
        /\ ret' = ok
        /\ IF ok THEN frame' \in Frames(kind, capSize) ELSE frame' = NoFrame
        /\ captured' = frame'
        /\ pc' = AfterRead(ok)
    /\ reads' = reads + 1
    /\ UNCHANGED <<kind, body_only, index, available_cameras, printed, left_open,
                   cap, capSize, client, server, releases, results, keypoints, theta,
                   body_mask, silhouette_rgb, osc, syphon, key, infers, checks, error>>

\* (frame = cv2.flip(frame, 1);) rgb_frame = cv2.cvtColor(frame, BGR2RGB); results = <model>.process(rgb_frame)
Process ==
    /\ pc = "infer"
    /\ IF kind = "pose"
       THEN /\ frame' = frame
            /\ results' \in PoseResults
       ELSE /\ frame' = Flip(frame)
            /\ results' \in SegResults
    /\ infers' = infers + 1
    /\ pc' = "build"
    /\ UNCHANGED <<kind, captured, body_only, index, available_cameras, printed, left_open,
                   cap, capSize, client, server, releases, ret, keypoints, theta,
                   body_mask, silhouette_rgb, osc, syphon, key, reads, checks, error>>

\* pose: the keypoint list; silhouette: mask, silhouette, resize, colour conversion
BuildArtifact ==
    /\ pc = "build"
    /\ IF kind = "pose"
       THEN /\ keypoints' = IF results.has THEN Keypoints(keypoints, results.landmark)
                                           ELSE keypoints
            /\ UNCHANGED <<body_mask, silhouette_rgb>>
       ELSE /\ body_mask' = BodyMask(results.segmentation_mask, theta)
            /\ silhouette_rgb' =
                 CvtColorBGR2RGB(Resize(Silhouette(frame, body_mask'), size))
            /\ UNCHANGED keypoints
    /\ pc' = AfterBuild(kind, results)
    /\ UNCHANGED <<kind, captured, body_only, index, available_cameras, printed, left_open,
                   cap, capSize, client, server, releases, ret, frame, results, theta,
                   osc, syphon, key, reads, infers, checks, error>>

\* client.send_message("/pose", keypoints) / server.draw_and_send(silhouette_rgb)
Publish ==
    /\ pc = "send"
    /\ \E outcome \in {"delivered", "dropped", "raised"} :
        /\ IF kind = "pose"
           THEN /\ osc' = [writes |-> osc.writes + 1,
                           delivered |-> osc.delivered + (IF outcome = "delivered" THEN 1 ELSE 0),
                           last |-> [path |-> PosePath, args |-> keypoints, frameNo |-> reads,
                                     ip |-> OSC_IP, port |-> OSC_PORT]]
                /\ syphon' = syphon
           ELSE /\ syphon' = IF outcome = "raised"
                             THEN [syphon EXCEPT !.publishes = @ + 1]
                             ELSE [syphon EXCEPT !.publishes = @ + 1,
                                                 !.shown = @ + (IF outcome = "delivered" THEN 1 ELSE 0),
                                                 !.surface = silhouette_rgb]
                /\ osc' = osc
        /\ IF outcome = "raised"
           THEN pc' = "aborted" /\ error' = "PublishError"
           ELSE pc' = "show" /\ error' = error
    /\ UNCHANGED <<kind, captured, body_only, index, available_cameras, printed, left_open,
                   cap, capSize, client, server, releases, ret, frame, results,
                   keypoints, theta, body_mask, silhouette_rgb, key, reads, infers, checks>>

\* cv2.imshow(window, frame)
ShowFrame ==
    /\ pc = "show"
    /\ pc' = AfterShow
    /\ UNCHANGED <<kind, captured, body_only, index, available_cameras, printed, left_open,
                   cap, capSize, client, server, releases, ret, frame, results,
                   keypoints, theta, body_mask, silhouette_rgb, osc, syphon, key, reads,
                   infers, checks, error>>

\* if cv2.waitKey(1) & 0xFF == ord('q'): break
WaitKey ==
    /\ pc = "waitkey"
    /\ key' \in {"q", "none"}
    /\ checks' = checks + 1
    /\ pc' = AfterWaitKey(key')
    /\ UNCHANGED <<kind, captured, body_only, index, available_cameras, printed, left_open,
                   cap, capSize, client, server, releases, ret, frame, results,
                   keypoints, theta, body_mask, silhouette_rgb, osc, syphon, reads, infers,
                   error>>

\* cap.release()
Release ==
    /\ pc = "release"
    /\ cap' = IF cap = "opened" THEN "released" ELSE cap
    /\ releases' = [releases EXCEPT !.cap = @ + 1]
    /\ pc' = "destroy"
    /\ UNCHANGED <<kind, captured, body_only, index, available_cameras, printed, left_open,
                   capSize, client, server, ret, frame, results, keypoints, theta,
                   body_mask, silhouette_rgb, osc, syphon, key, reads, infers, checks, error>>

\* cv2.destroyAllWindows(); the cell ends
DestroyWindows ==
    /\ pc = "destroy"
    /\ pc' = "done"
    /\ UNCHANGED <<kind, captured, body_only, index, available_cameras, printed, left_open,
                   cap, capSize, client, server, releases, ret, frame, results,
                   keypoints, theta, body_mask, silhouette_rgb, osc, syphon, key, reads,
                   infers, checks, error>>

\* KeyboardInterrupt (or any exception of a library call) inside the loop body:
\* the cell has no try/finally, the statements after the loop do not run
Interrupt ==
    /\ pc \in BodyPcs
    /\ pc' = "aborted"
    /\ error' = "KeyboardInterrupt"
    /\ UNCHANGED <<kind, captured, body_only, index, available_cameras, printed, left_open,
                   cap, capSize, client, server, releases, ret, frame, results,
                   keypoints, theta, body_mask, silhouette_rgb, osc, syphon, key, reads,
                   infers, checks>>

Next ==
    \/ Setup
    \/ OpenCapture
    \/ LoopGuard
    \/ ReadFrame
    \/ Process
    \/ BuildArtifact
    \/ Publish
    \/ ShowFrame
    \/ WaitKey
    \/ Release
    \/ DestroyWindows
    \/ Interrupt

Spec == Init /\ [][Next]_vars


----------------------------------------------------------------------------
(* The threshold step alone, for every threshold and every confidence *)

InitMask ==
    /\ kind = "silhouette"
    /\ pc = "mask"
    /\ cap = "opened"
    /\ capSize = <<640, 480>>
    /\ client = "unset"
    /\ server = "open"
    /\ releases = [cap |-> 0, client |-> 0, server |-> 0]
    /\ ret = TRUE
    /\ frame \in Frames("silhouette", capSize)
    /\ results \in {[has |-> TRUE, landmark |-> <<>>, segmentation_mask |-> m] :
                       m \in [Pix -> AllConf]}
    /\ keypoints = <<>>
    /\ theta \in AllConf
    /\ body_mask = <<>>
    /\ silhouette_rgb = NoFrame
    /\ osc = [writes |-> 0, delivered |-> 0, last |-> NoMsg]
    /\ syphon = [publishes |-> 0, shown |-> 0, size |-> size, surface |-> NoFrame]
    /\ key = "none"
    /\ reads = 1
    /\ infers = 1
    /\ checks = 0
    /\ error = "none"
    /\ captured = frame
    /\ body_only = NoFrame
    /\ index = 0
    /\ available_cameras = <<>>
    /\ printed = <<>>
    /\ left_open = {}

\* body_mask = (results.segmentation_mask > theta).astype(np.uint8) * 255
MaskStep ==
    /\ pc = "mask"
    /\ body_mask' = BodyMask(results.segmentation_mask, theta)
    /\ pc' = "masked"
    /\ UNCHANGED <<kind, captured, body_only, index, available_cameras, printed, left_open,
                   cap, capSize, client, server, releases, ret, frame, results,
                   keypoints, theta, silhouette_rgb, osc, syphon, key, reads, infers,
                   checks, error>>

NextMask == MaskStep

SpecMask == InitMask /\ [][NextMask]_vars

----------------------------------------------------------------------------
(* Controller state of the capture-loop cell *)

\* Idle: before the loop is entered; Running: inside the while loop;
\* ShuttingDown: the statements after the loop; Closed: the cell has ended.
\* A cell ended by an exception stays where the exception found it.
ControllerState ==
    CASE pc \in {"setup", "open"} -> "Idle"
      [] pc = "guard" /\ reads = 0 -> "Idle"
      [] pc = "guard" /\ reads > 0 -> "Running"
      [] pc \in BodyPcs -> "Running"
      [] pc \in {"release", "destroy"} -> "ShuttingDown"
      [] pc = "done" -> "Closed"
      [] pc = "aborted" -> IF error = "SetupError" THEN "Idle" ELSE "Running"
      [] OTHER -> "Running"


----------------------------------------------------------------------------
(* Claims *)

\* C1: the capture device is released exactly once on every exit path of the
\* frame loop (quit key, failed read, exception raised in the middle of a
\* cycle): no run ends with the device opened and not released, and no run
\* releases it twice.
C1_ReleasedOnEveryExit ==
    /\ releases.cap <= 1
    /\ pc \in {"done", "aborted"} => cap # "opened"
    /\ cap = "released" => releases.cap = 1

Transitions == {<<"Idle", "Running">>, <<"Running", "ShuttingDown">>,
                <<"ShuttingDown", "Closed">>}

ClosedIsFinal ==
    ControllerState = "Closed" =>
        /\ ControllerState' = "Closed"
        /\ UNCHANGED <<reads, infers, osc, syphon>>

\* C2 as stated: the controller only moves Idle -> Running -> ShuttingDown ->
\* Closed, no transition is skipped, Closed is terminal and nothing is
\* captured, inferred or published after Closed.
C2_OnlyOrderedTransitions ==
    [][ /\ \/ ControllerState' = ControllerState
           \/ <<ControllerState, ControllerState'>> \in Transitions
        /\ ClosedIsFinal ]_vars

\* C2 as amended: the controller moves Idle -> Running -> ShuttingDown ->
\* Closed in that order, except that a capture device that did not open takes
\* it from Idle straight to ShuttingDown; Running and Idle never go directly
\* to Closed, Closed is terminal and nothing is captured, inferred or
\* published after Closed.
C2_OrderedTransitionsOrFailedOpen ==
    [][ /\ \/ ControllerState' = ControllerState
           \/ <<ControllerState, ControllerState'>> \in Transitions
           \/ /\ <<ControllerState, ControllerState'>> = <<"Idle", "ShuttingDown">>
              /\ cap = "unopened"
              /\ reads = 0
        /\ ClosedIsFinal ]_vars

\* a run that went through all four states
C2_Witness == ControllerState = "Closed" /\ infers > 0 /\ cap = "released"

\* C3: once the controller is Closed, every handle opened during the run
\* (capture device, OSC client socket, Syphon server) is released, each
\* exactly once.
C3_AllHandlesReleasedAtClosed ==
    ControllerState = "Closed" =>
        /\ cap \in {"opened", "released"} => cap = "released" /\ releases.cap = 1
        /\ client # "unset" => client = "closed" /\ releases.client = 1
        /\ server # "unset" => server = "closed" /\ releases.server = 1


\* the artifact of the current frame, if there is one, has been handed to the sink
PublishStepDone ==
    IF kind = "pose"
    THEN results.has => osc.last.frameNo = reads
    ELSE syphon.publishes = reads

\* C4: in every cycle the quit key is checked once, after the cycle's publish
\* step and before the next cap.read(): before each capture every earlier
\* cycle has had its check, the check finds the cycle's publish step done
\* (also when nothing was to be published), and a quit is only ever observed
\* with the publish step done.
C4_StopCheckedAfterPublish ==
    /\ checks <= reads
    /\ pc \in {"guard", "read"} => checks = reads
    /\ pc = "waitkey" => checks = reads - 1 /\ PublishStepDone
    /\ key = "q" => checks = reads /\ PublishStepDone
                    /\ pc \in {"release", "destroy", "done"}

\* a second capture is about to start after a cycle that published nothing
C4_Witness ==
    /\ pc = "read" /\ reads = 1 /\ checks = 1
    /\ kind = "pose" /\ ~results.has /\ infers = 1

\* the cycle of the last inference is still the current one
InCycleOfResults == infers >= 1 /\ infers = reads

\* C5: when pose.process returns no landmarks, nothing is written to the OSC
\* socket in that cycle, no error is raised by it, and the loop goes on to the
\* display and the stop check and then to the next capture; it shuts down
\* only if the quit key is pressed.
C5_NoLandmarksNoWrite ==
    (kind = "pose" /\ InCycleOfResults /\ ~results.has) =>
        /\ osc.last.frameNo # reads
        /\ osc.writes < reads
        /\ pc # "send"
        /\ error # "PublishError"
        /\ pc \in {"release", "destroy", "done"} => key = "q"
        /\ pc \in {"guard", "read"} => key = "none" /\ checks = reads

\* the loop came back to the capture after a frame without landmarks
C5_Witness ==
    /\ kind = "pose" /\ InCycleOfResults /\ ~results.has
    /\ pc = "read" /\ osc.writes = 0

IsKeypointVector(kp, ls) ==
    /\ Len(kp) = 2 * Len(ls)
    /\ \A i \in 1..Len(ls) : kp[2 * i - 1] = ls[i].x /\ kp[2 * i] = ls[i].y

\* C6: the keypoint vector sent for a set of N landmarks has length 2N, with
\* landmark i's x and y at positions 2i and 2i+1 (counted from 0) in landmark
\* order, and holds nothing of an earlier frame.
C6_KeypointVectorLayout ==
    (kind = "pose" /\ InCycleOfResults /\ results.has) =>
        /\ pc \in {"send", "show", "waitkey", "guard"} =>
               IsKeypointVector(keypoints, results.landmark)
        /\ osc.last.frameNo = reads =>
               /\ IsKeypointVector(osc.last.args, results.landmark)
               /\ osc.last.path = PosePath

\* the second message of a run carries a full landmark set with x # y
C6_Witness ==
    /\ kind = "pose" /\ osc.writes = 2 /\ osc.last.frameNo = 2
    /\ Len(results.landmark) = MaxLandmarks
    /\ osc.last.args[1] # osc.last.args[2]

\* raising the threshold never turns a 0 pixel into 255
MaskMonotonic ==
    \A t \in AllConf : t >= theta =>
        \A i \in Pix :
            body_mask[i] = 0 => BodyMask(results.segmentation_mask, t)[i] = 0

\* C7 as stated: the mask holds only 0 and 255, is 255 everywhere for
\* threshold 0, 0 everywhere for threshold 1, and is monotonic in the
\* threshold.
C7_MaskAllWhiteAtZero ==
    pc = "masked" =>
        /\ \A i \in Pix : body_mask[i] \in {0, 255}
        /\ theta = 0 => \A i \in Pix : body_mask[i] = 255
        /\ theta = 10 => \A i \in Pix : body_mask[i] = 0
        /\ MaskMonotonic

\* C7 as amended: the mask holds only 0 and 255; for threshold 0 it is 255 at
\* every pixel whose confidence is above 0 and 0 at a pixel of confidence
\* exactly 0; for threshold 1 it is 0 everywhere; it is monotonic in the
\* threshold.
C7_MaskStrictThreshold ==
    pc = "masked" =>
        /\ \A i \in Pix : body_mask[i] \in {0, 255}
        /\ theta = 0 => \A i \in Pix :
               body_mask[i] = (IF results.segmentation_mask[i] = 0 THEN 0 ELSE 255)
        /\ theta = 10 => \A i \in Pix : body_mask[i] = 0
        /\ MaskMonotonic

\* threshold 0 applied to a map with a pixel of confidence 0 and one of confidence 1
C7_Witness ==
    /\ pc = "masked" /\ theta = 0
    /\ results.segmentation_mask[1] = 0 /\ results.segmentation_mask[2] = 10

\* C8: a sink that fails to deliver never aborts the pipeline.
C8_PublishFailureNeverAborts == error # "PublishError"

\* C9: a failed cap.read() ends the stream: the loop is left in that cycle,
\* the failed frame is neither inferred nor published, the device is released
\* and the cell ends without an exception.
C9_FailedReadEndsStream ==
    (reads >= 1 /\ ~ret) =>
        /\ ControllerState \in {"ShuttingDown", "Closed"}
        /\ infers = reads - 1
        /\ osc.last.frameNo # reads
        /\ syphon.publishes < reads
        /\ frame = NoFrame
        /\ error = "none"
        /\ pc \in {"destroy", "done"} => cap = "released" /\ releases.cap = 1

\* a read failed after one good frame and the cell has ended
C9_Witness ==
    /\ pc = "done" /\ reads = 2 /\ ~ret /\ infers = 1
    /\ cap = "released"

\* C10: if the capture device or a publisher fails to open, the loop is never
\* entered, nothing is captured, inferred or published, the handles that did
\* open are released exactly once and the handle that did not open is neither
\* released twice nor makes the release fail.
C10_StartupFailureReleasesAll ==
    (cap = "unopened" \/ error = "SetupError") =>
        /\ reads = 0 /\ infers = 0 /\ osc.writes = 0 /\ syphon.publishes = 0
        /\ releases.cap <= 1
        /\ error \in {"none", "SetupError"}
        /\ pc \in {"done", "aborted"} =>
               /\ client = "open" => releases.client = 1
               /\ server = "open" => releases.server = 1
               /\ client # "open" /\ server # "open"


\* C11: cap.read() is only ever issued on an opened device: the loop test
\* cap.isOpened() keeps a device that did not open from being read, and no
\* read follows cap.release().
C11_ReadOnlyWhenOpened ==
    /\ pc \in BodyPcs => cap = "opened" /\ releases.cap = 0
    /\ reads > 0 => cap \in {"opened", "released"}
    /\ releases.cap > 0 => pc \in {"destroy", "done"}
    /\ cap = "unopened" => reads = 0 /\ ~ret /\ frame = NoFrame

\* a run whose device never opened has ended without a single read
C11_Witness == pc = "done" /\ cap = "unopened" /\ reads = 0 /\ releases.cap = 1


\* the publish call of the current cycle has returned
PublishedThisCycle ==
    /\ kind = "silhouette" /\ InCycleOfResults
    /\ syphon.publishes = reads /\ error # "PublishError"

C14_OneFrameInFlight ==
    /\ infers <= reads /\ reads <= infers + 1
    /\ osc.last.frameNo <= reads /\ osc.writes <= infers
    /\ syphon.publishes <= infers
    /\ pc = "infer" => infers = reads - 1 /\ checks = reads - 1 /\ ret
    /\ pc \in {"build", "send", "show", "waitkey"} =>
           infers = reads /\ checks = reads - 1 /\ ret
    /\ (pc = "send" /\ kind = "pose") =>
           /\ osc.last.frameNo < reads
           /\ IsKeypointVector(keypoints, results.landmark)
    /\ (pc = "send" /\ kind = "silhouette") =>
           /\ syphon.publishes = reads - 1
           /\ silhouette_rgb.px = Silhouette(frame, body_mask).px
           /\ body_mask = BodyMask(results.segmentation_mask, theta)
    /\ pc \in {"guard", "read"} =>
           /\ infers = reads /\ checks = reads
           /\ kind = "silhouette" => syphon.publishes = reads
           /\ (kind = "pose" /\ results.has) => osc.last.frameNo = reads

\* the second frame is being published, after the first was published and checked
C14_Witness ==
    /\ pc = "send" /\ reads = 2 /\ infers = 2 /\ checks = 1
    /\ kind = "silhouette" /\ syphon.publishes = 1


----------------------------------------------------------------------------
(* Progress: the statements after the loop are plain calls that return *)

FairSpec == Spec /\ WF_vars(Release) /\ WF_vars(DestroyWindows)

\* the quit key was read, or a read failed
StopObserved == key = "q" \/ (reads >= 1 /\ ~ret)

\* C15: once the quit key or the end of the stream is observed, the run
\* reaches Closed with the device released; it does not stay in Running or
\* ShuttingDown forever.
C15_StopLeadsToClosed ==
    StopObserved ~> (ControllerState = "Closed" /\ cap = "released" /\ releases.cap = 1)

\* the quit key ended a run after two frames
C15_Witness ==
    /\ key = "q" /\ ControllerState = "Closed" /\ reads = 2
    /\ cap = "released"


\* C16: every frame handed to the Syphon server has the size the server was
\* created with (1280x720) and the RGB layout, whatever the capture
\* resolution, and the server keeps that size while the loop runs.
C16_PublishedFrameHasServerSize ==
    kind = "silhouette" =>
        /\ server = "open" => syphon.size = <<1280, 720>>
        /\ pc = "send" =>
               /\ silhouette_rgb.size = syphon.size
               /\ silhouette_rgb.layout = "RGB"
               /\ frame.size = capSize
        /\ syphon.publishes > 0 =>
               /\ silhouette_rgb.size = syphon.size
               /\ silhouette_rgb.layout = "RGB"
        /\ syphon.surface # NoFrame =>
               /\ syphon.surface.size = syphon.size
               /\ syphon.surface.layout = "RGB"

\* a 640x480 capture was published at the server's size
C16_Witness ==
    /\ kind = "silhouette" /\ capSize = <<640, 480>> /\ pc = "show"
    /\ frame.size = <<640, 480>> /\ syphon.publishes = 1
    /\ syphon.surface.size = <<1280, 720>>


\* C18: in the pose loop a message is written only in a cycle whose read
\* succeeded and whose frame has landmarks, at most once per frame, always to
\* "/pose" at the configured address, and never in or after the cycle of a
\* failed read or after the quit key was read; so the messages never
\* outnumber the frames read.
C18_OneMessagePerGoodFrame ==
    [][ (kind = "pose" /\ osc' # osc) =>
            /\ pc = "send" /\ ret /\ results.has /\ key # "q"
            /\ infers = reads
            /\ osc.last.frameNo < reads
            /\ osc'.writes = osc.writes + 1
            /\ osc'.writes <= reads
            /\ osc'.last.frameNo = reads
            /\ osc'.last.path = "/pose"
            /\ osc'.last.ip = "127.0.0.1" /\ osc'.last.port = 12000
            /\ osc'.last.args = keypoints ]_vars

\* two frames were read, only the second had landmarks and was sent
C18_Witness ==
    /\ kind = "pose" /\ reads = 2 /\ osc.writes = 1 /\ osc.last.frameNo = 2
    /\ pc = "waitkey"


----------------------------------------------------------------------------
(* The segmentation test loop: one frame through flip, threshold, blur, mask *)

\* cv2.getGaussianKernel(15, 0): sigma = 0.3 * ((15 - 1) * 0.5 - 1) + 0.8 = 2.6,
\* in 1/256ths
GaussKernel == <<1, 3, 6, 12, 20, 29, 37, 40, 37, 29, 20, 12, 6, 3, 1>>

\* BORDER_REFLECT_101 (the default border) on positions 1..n
Reflect101(j, n) ==
    IF n = 1 THEN 1
    ELSE LET m == (j - 1) % (2 * (n - 1))
         IN  IF m < n THEN m + 1 ELSE 2 * (n - 1) - m + 1

RECURSIVE BlurSum(_, _, _)
BlurSum(m, i, k) ==
    IF k = 0 THEN 0
    ELSE GaussKernel[k] * m[Reflect101(i + k - 8, Len(m))] + BlurSum(m, i, k - 1)

\* cv2.GaussianBlur(body_mask, (15, 15), 0)
GaussianBlur(m) == [i \in DOMAIN m |-> (BlurSum(m, i, Len(GaussKernel)) + 128) \div 256]

RECURSIVE BitAnd(_, _)
\* a & b on unsigned bytes
BitAnd(a, b) ==
    IF a = 0 \/ b = 0 THEN 0
    ELSE (a % 2) * (b % 2) + 2 * BitAnd(a \div 2, b \div 2)

\* cv2.bitwise_and(src1, src2, mask=mask): the AND where the mask is not 0, 0 elsewhere
BitwiseAnd(src1, src2, mask) ==
    [src1 EXCEPT !.px = [i \in DOMAIN src1.px |->
        IF mask[i] # 0
        THEN [c \in 1..3 |-> BitAnd(src1.px[i][c], src2.px[i][c])]
        ELSE Black3]]

InitMatte ==
    /\ kind = "matte"
    /\ pc = "flip"
    /\ cap = "opened"
    /\ capSize = <<640, 480>>
    /\ client = "unset"
    /\ server = "open"
    /\ releases = [cap |-> 0, client |-> 0, server |-> 0]
    /\ ret = TRUE
    /\ frame \in Frames("matte", capSize)
    /\ results \in {[has |-> TRUE, landmark |-> <<>>, segmentation_mask |-> m] :
                       m \in [Pix -> AllConf]}
    /\ keypoints = <<>>
    /\ theta = Threshold
    /\ body_mask = <<>>
    /\ silhouette_rgb = NoFrame
    /\ osc = [writes |-> 0, delivered |-> 0, last |-> NoMsg]
    /\ syphon = [publishes |-> 0, shown |-> 0, size |-> size, surface |-> NoFrame]
    /\ key = "none"
    /\ reads = 1
    /\ infers = 1
    /\ checks = 0
    /\ error = "none"
    /\ captured = frame
    /\ body_only = NoFrame
    /\ index = 0
    /\ available_cameras = <<>>
    /\ printed = <<>>
    /\ left_open = {}

\* frame = cv2.flip(frame, 1)
MatteFlip ==
    /\ pc = "flip"
    /\ frame' = Flip(frame)
    /\ pc' = "mask"
    /\ UNCHANGED <<body_mask, body_only>>
    /\ UNCHANGED <<kind, cap, capSize, client, server, releases, ret, results, keypoints,
                   theta, silhouette_rgb, osc, syphon, key, reads, infers, checks, error,
                   captured, index, available_cameras, printed, left_open>>

\* body_mask = cv2.GaussianBlur(body_mask, (15, 15), 0)
MatteBlur ==
    /\ pc = "masked"
    /\ body_mask' = GaussianBlur(body_mask)
    /\ pc' = "and"
    /\ UNCHANGED <<frame, body_only>>
    /\ UNCHANGED <<kind, cap, capSize, client, server, releases, ret, results, keypoints,
                   theta, silhouette_rgb, osc, syphon, key, reads, infers, checks, error,
                   captured, index, available_cameras, printed, left_open>>

\* body_only = cv2.bitwise_and(frame, frame, mask=body_mask)
MatteAnd ==
    /\ pc = "and"
    /\ body_only' = BitwiseAnd(frame, frame, body_mask)
    /\ pc' = "matte_done"
    /\ UNCHANGED <<frame, body_mask>>
    /\ UNCHANGED <<kind, cap, capSize, client, server, releases, ret, results, keypoints,
                   theta, silhouette_rgb, osc, syphon, key, reads, infers, checks, error,
                   captured, index, available_cameras, printed, left_open>>

NextMatte ==
    \/ MatteFlip
    \/ MaskStep
    \/ MatteBlur
    \/ MatteAnd

SpecMatte == InitMatte /\ [][NextMatte]_vars

AllNine == \A i \in Pix : results.segmentation_mask[i] = 9

----------------------------------------------------------------------------
(* The camera enumeration cell of the pose notebook *)

\* range(6)
NumIndices == 6
NoDevice == "No device detected."
\* cap.get(cv2.CAP_PROP_DEVICE_NAME) if hasattr(cv2, 'CAP_PROP_DEVICE_NAME') else "Unknown"
CameraNames == {"Unknown", "name"}

ProbeNoRelease(open, i) == open

\* cap.release() of the probe capture
ProbeRelease(open, i) == open \ {i}

InitEnum ==
    /\ kind = "pose"
    /\ pc = "scan"
    /\ cap = "unset"
    /\ capSize \in CaptureSizes
    /\ client = "open"
    /\ server = "unset"
    /\ releases = [cap |-> 0, client |-> 0, server |-> 0]
    /\ ret = FALSE
    /\ frame = NoFrame
    /\ results = NoResults
    /\ keypoints = <<>>
    /\ theta = Threshold
    /\ body_mask = <<>>
    /\ silhouette_rgb = NoFrame
    /\ osc = [writes |-> 0, delivered |-> 0, last |-> NoMsg]
    /\ syphon = [publishes |-> 0, shown |-> 0, size |-> <<0, 0>>, surface |-> NoFrame]
    /\ key = "none"
    /\ reads = 0
    /\ infers = 0
    /\ checks = 0
    /\ error = "none"
    /\ captured = NoFrame
    /\ body_only = NoFrame
    /\ index = 0
    /\ available_cameras = <<>>
    /\ printed = <<>>
    /\ left_open = {}

\* one pass of `for index in range(6)`: open, report, append and release, or report no device
ProbeIndex ==
    /\ pc = "scan"
    /\ index < NumIndices
    /\ \E ok \in BOOLEAN, camera_name \in CameraNames :
        IF ok
        THEN /\ printed' = Append(printed, [index |-> index, line |-> camera_name])
             /\ available_cameras' = Append(available_cameras, <<index, camera_name>>)
             /\ left_open' = ProbeRelease(left_open \cup {index}, index)
        ELSE /\ printed' = Append(printed, [index |-> index, line |-> NoDevice])
             /\ UNCHANGED <<available_cameras, left_open>>
    /\ index' = index + 1
    /\ UNCHANGED <<kind, pc, cap, capSize, client, server, releases, ret, frame, results,
                   keypoints, theta, body_mask, silhouette_rgb, osc, syphon, key, reads,
                   infers, checks, error, captured, body_only>>

\* return available_cameras; cameras = list_camera_devices(); if not cameras: exit()
ScanDone ==
    /\ pc = "scan"
    /\ index = NumIndices
    /\ pc' = IF available_cameras = <<>> THEN "exited" ELSE "open"
    /\ UNCHANGED <<kind, cap, capSize, client, server, releases, ret, frame, results,
                   keypoints, theta, body_mask, silhouette_rgb, osc, syphon, key, reads,
                   infers, checks, error, captured, body_only, index, available_cameras,
                   printed, left_open>>

NextEnum ==
    \/ ProbeIndex
    \/ ScanDone

SpecEnum == InitEnum /\ [][NextEnum]_vars

\* the indices reported as a device, in the order reported
ReportedAvailable == SelectSeq(printed, LAMBDA r : r.line # NoDevice)

\* C17: list_camera_devices probes the indices 0..5 in ascending order,
\* reports each probed index once, as a device or as "no device", goes on
\* after an index that did not open, returns exactly the indices that opened
\* and leaves no probe capture open; the program exits before the capture
\* loop only when no index opened.
C17_EnumerationReportsEachIndex ==
    /\ index \in 0..6
    /\ Len(printed) = index
    /\ \A k \in 1..Len(printed) : printed[k].index = k - 1
    /\ Len(available_cameras) = Len(ReportedAvailable)
    /\ \A k \in 1..Len(available_cameras) :
           /\ available_cameras[k][1] = ReportedAvailable[k].index
           /\ available_cameras[k][2] = ReportedAvailable[k].line
    /\ left_open = {}
    /\ pc \in {"open", "exited"} => index = 6
    /\ pc = "exited" => available_cameras = <<>> /\ reads = 0 /\ cap = "unset"
    /\ pc = "open" => available_cameras # <<>>

\* indices 0 and 2 opened, index 1 and the others did not, and the run goes on
C17_Witness ==
    /\ pc = "open" /\ Len(available_cameras) = 2
    /\ available_cameras[1][1] = 0 /\ available_cameras[2][1] = 2
    /\ printed[2].line = NoDevice /\ printed[6].line = NoDevice

====
